---- MODULE Spec2Model ----
(***************************************************************************)
(* State-machine model of the browser-automation job manager               *)
(* (task_manager.py), the agent loop it runs in a background thread        *)
(* (browser_agent.py) and the synchronous browse_web tool (server.py).     *)
(*                                                                         *)
(* Every `with self._lock:` block of BrowserTaskManager that makes no       *)
(* blocking call is one atomic step, taken when the lock is free.  A       *)
(* manager call that only consists of such a block (plus the thread spawn  *)
(* of start_task) is one action.  _execute_task runs in its   *)
(* own thread and is a sequence of steps, one per lock block or blocking   *)
(* external call (browser, decision service), tracked by pc.               *)
(***************************************************************************)
EXTENDS Integers, Sequences, FiniteSets, TLC

VARIABLES
    tasks,   \* BrowserTaskManager.tasks: the ids that are keys of the table
    obj,     \* the BrowserTask objects, by id (an object outlives its table entry)
    agent,   \* the GeminiBrowserAgent objects, by owner (a task id, or Sync)
    pc,      \* position of each background thread / of the browse_web call
    clock,   \* the last value datetime.now() returned
    hist,    \* history, by task id: start_task and cancel_task calls that
             \* returned True, threads launched
    lock     \* BrowserTaskManager._lock: free (None), or what its holder is
             \* waiting for inside its `with self._lock:` block

vars == <<tasks, obj, agent, pc, clock, hist, lock>>

--------------------------------------------------------------------------
(* Bounds of the model *)

MaxTasks == 1      \* create_task calls
MaxClock == 1      \* clock readings 0..MaxClock (the last one repeats)
MaxTurns == 2      \* value of the max_turns parameter
MaxAge == 1        \* ages 0..MaxAge given to cleanup_old_tasks

TaskIds == 1 .. MaxTasks
Sync == 0                        \* owner of the agent browse_web creates
Owners == TaskIds \cup {Sync}

--------------------------------------------------------------------------
(* Values *)

\* Optional[...]: None is the empty set, a value v is {v}.
None == {}
Some(v) == {v}
The(o) == CHOOSE v \in o : TRUE

\* class TaskStatus
PENDING == "pending"
RUNNING == "running"
COMPLETED == "completed"
FAILED == "failed"
CANCELLED == "cancelled"

\* Placeholder of a task id no create_task has produced yet.
NoTask == [status |-> "absent"]

\* Faulty variant of BrowserTask: the record is stamped as started when made.
BrowserTaskStamped ==
    [status |-> PENDING, started_at |-> Some(0), completed_at |-> None,
     result |-> None, error |-> None, agent |-> FALSE,
     progress_updates |-> <<>>]

\* BrowserTask.__init__ (task_id, task_description, url and created_at are
\* written once here and read by no operation below except to copy them out).
BrowserTask ==
    [status |-> PENDING, started_at |-> None, completed_at |-> None,
     result |-> None, error |-> None, agent |-> FALSE,
     progress_updates |-> <<>>]

\* max_turns parameter of _run_browser_automation_loop.
max_turns == MaxTurns

\* The value the loop returns when the turn budget is used up.
MaxTurnsMsg == <<"Task reached maximum turns", max_turns>>

--------------------------------------------------------------------------
(* Decision-service responses: candidate.content.parts *)

TextPart(t) == [function_call |-> None, text |-> Some(t)]
CallPart(n, s) ==
    [function_call |-> Some([name |-> n, safety_decision |-> s]), text |-> None]

\* Names of the dispatch table that drive the page, those that do not, and
\* one name outside the table.
PageActions == {"click_at", "navigate"}
IdleActions == {"open_web_browser"}
UnknownActions == {"zoom"}
NavigationActions == {"navigate", "go_back", "go_forward", "search"}

SeqsUpTo(S, n) == UNION {[1 .. k -> S] : k \in 0 .. n}

\* Responses the decision service may give to a background job's loop.
JobParts == {TextPart("done"), CallPart("click_at", None)}
JobResponses == {<<p>> : p \in JobParts}

\* Responses it may give to the loop browse_web runs.
SyncParts ==
    {TextPart("all"), TextPart("done"),
     CallPart("click_at", None), CallPart("navigate", Some("ack")),
     CallPart("open_web_browser", None), CallPart("zoom", None)}
SyncResponses == SeqsUpTo(SyncParts, 2)

\* part.function_call for part in parts if part.function_call
FunctionCalls(parts) ==
    LET F[i \in 0 .. Len(parts)] ==
            IF i = 0 THEN <<>>
            ELSE IF parts[i].function_call # None
                 THEN Append(F[i - 1], The(parts[i].function_call))
                 ELSE F[i - 1]
    IN  F[Len(parts)]

\* Faulty variant of TextResponse: only the first fragment is kept.
TextResponseFirstOnly(parts) ==
    LET F[i \in 0 .. Len(parts)] ==
            IF i = 0 THEN <<>>
            ELSE IF parts[i].text # None /\ F[i - 1] = <<>>
                 THEN <<The(parts[i].text)>>
                 ELSE F[i - 1]
    IN  F[Len(parts)]

\* " ".join([part.text for part in parts if part.text]): the fragments in
\* order, one space between two of them (a string is the sequence of its
\* pieces)
TextResponse(parts) ==
    LET F[i \in 0 .. Len(parts)] ==
            IF i = 0 THEN <<>>
            ELSE IF parts[i].text # None
                 THEN IF F[i - 1] = <<>> THEN <<The(parts[i].text)>>
                      ELSE F[i - 1] \o <<" ", The(parts[i].text)>>
                 ELSE F[i - 1]
    IN  F[Len(parts)]

--------------------------------------------------------------------------
(* Python float arithmetic: IEEE 754 binary64, round to nearest, ties to   *)
(* even.  A positive float is [m, e]: m its MantissaBits binary digits,    *)
(* most significant first, e the exponent of two of the last digit.        *)

MantissaBits == 53

Zero == [m |-> <<>>, e |-> 0]

\* the binary digits of n, most significant first
RECURSIVE Bin(_)
Bin(n) == IF n = 0 THEN <<>> ELSE Append(Bin(n \div 2), n % 2)

\* the number with these binary digits
RECURSIVE ValueOf(_)
ValueOf(digits) ==
    IF digits = <<>> THEN 0
    ELSE 2 * ValueOf(SubSeq(digits, 1, Len(digits) - 1)) + digits[Len(digits)]

\* digits + 1, for digits that are not all 1
PlusOne(digits) ==
    LET carry[i \in 1 .. Len(digits)] ==
            IF i = Len(digits) THEN 1
            ELSE IF digits[i + 1] = 1 /\ carry[i + 1] = 1 THEN 1 ELSE 0
    IN  [i \in 1 .. Len(digits) |-> (digits[i] + carry[i]) % 2]

\* The float nearest to the number with the given digits (at least
\* MantissaBits of them, the first one 1, the last one of weight 2^e),
\* followed by further digits that are all 0 iff ~ more.
Round(digits, more, e) ==
    LET keep == SubSeq(digits, 1, MantissaBits)
        guard == IF Len(digits) > MantissaBits THEN digits[MantissaBits + 1] ELSE 0
        sticky == more \/ \E i \in MantissaBits + 2 .. Len(digits) : digits[i] = 1
        up == guard = 1 /\ (sticky \/ keep[MantissaBits] = 1)
        exp == e + (Len(digits) - MantissaBits)
    IN  IF ~ up THEN [m |-> keep, e |-> exp]
        ELSE IF \A i \in 1 .. MantissaBits : keep[i] = 1
             THEN [m |-> [i \in 1 .. MantissaBits |-> IF i = 1 THEN 1 ELSE 0],
                   e |-> exp + 1]
             ELSE [m |-> PlusOne(keep), e |-> exp]

\* x / d for ints x >= 0 and d > 0: the quotient, correctly rounded.  Its
\* digits are those of x // d followed by the digits long division gives
\* after the point.
TrueDiv(x, d) ==
    IF x = 0 THEN Zero
    ELSE LET int == Bin(x \div d)
             R[i \in 0 .. Len(Bin(d)) + MantissaBits + 1] ==
                 IF i = 0 THEN x % d ELSE (2 * R[i - 1]) % d
             D(i) == IF i <= Len(int) THEN int[i]
                     ELSE IF 2 * R[i - Len(int) - 1] >= d THEN 1 ELSE 0
             first == CHOOSE i \in 1 .. Len(int) + Len(Bin(d)) :
                          D(i) = 1 /\ \A j \in 1 .. i - 1 : D(j) = 0
             last == first + MantissaBits
         IN  Round([i \in 1 .. MantissaBits + 1 |-> D(first + i - 1)],
                   R[last - Len(int)] # 0,
                   Len(int) - last)

\* f * w for a float f and an int w > 0: the product, correctly rounded
\* (w is converted to float exactly).  carry[j] is the carry out of digit j.
Mul(f, w) ==
    IF f = Zero THEN Zero
    ELSE LET carry[j \in 1 .. MantissaBits + 1] ==
                 IF j = MantissaBits + 1 THEN 0
                 ELSE (carry[j + 1] + f.m[j] * w) \div 2
             product == Bin(carry[1]) \o
                        [j \in 1 .. MantissaBits |-> (carry[j + 1] + f.m[j] * w) % 2]
         IN  Round(product, FALSE, f.e)

\* int(f): the digits before the point
IntOf(f) ==
    IF f = Zero \/ MantissaBits + f.e <= 0 THEN 0
    ELSE IF f.e >= 0 THEN ValueOf(f.m) * 2 ^ f.e
    ELSE ValueOf(SubSeq(f.m, 1, MantissaBits + f.e))

--------------------------------------------------------------------------
(* GeminiBrowserAgent *)

\* SCREEN_WIDTH, SCREEN_HEIGHT: the defaults of the environment variables
SCREEN_WIDTH == 1440
SCREEN_HEIGHT == 900

\* GeminiBrowserAgent.__init__, with the locals of the loop that live
\* across its blocking calls (contents, turn, the calls still to execute,
\* results, function_responses, text_response) and the value execute_task
\* returns.  requests counts the generate_content calls issued;
\* sent is the conversation passed to the generate_content call issued
\* last; inputs lists the operations the dispatcher has invoked on the page;
\* captures counts the screenshots page.screenshot has returned, a
\* screenshot being named by the number of those taken before it;
\* screenshots lists the files written to screenshot_dir; viewport is
\* what SCREEN_WIDTH and SCREEN_HEIGHT were read as when the module was
\* loaded; mouse is where page.mouse was last sent to, and for which
\* arguments.
GeminiBrowserAgent ==
    [browser |-> "none", progress_updates |-> <<>>, screenshot_counter |-> 0,
     screenshots |-> <<>>, contents |-> <<>>, turn |-> 0, calls |-> <<>>, results |-> <<>>,
     function_responses |-> <<>>, text_response |-> <<>>,
     requests |-> 0, outcome |-> None, captures |-> 0, inputs |-> <<>>, sent |-> <<>>,
     viewport |-> [width |-> SCREEN_WIDTH, height |-> SCREEN_HEIGHT],
     mouse |-> None]

\* screenshot_dir / f"step_{self.screenshot_counter:02d}_{label}_{timestamp}.png"
\* (no label part for the screenshot taken after the actions of a turn)
screenshot_path(ag, label) == [step |-> ag.screenshot_counter, label |-> label]

\* page.screenshot() returns a new screenshot of the page.
Capture(ag) == [ag EXCEPT !.captures = @ + 1]

\* A screenshot is taken and written to its file, then
\* self.screenshot_counter += 1.
SaveScreenshot(ag, label) ==
    [Capture(ag) EXCEPT
        !.screenshots = Append(@, screenshot_path(ag, label) @@ [shot |-> ag.captures]),
        !.screenshot_counter = @ + 1]

\* _denormalize_x, _denormalize_y
_denormalize_x(ag, x) == IntOf(Mul(TrueDiv(x, 1000), ag.viewport.width))
_denormalize_y(ag, y) == IntOf(Mul(TrueDiv(y, 1000), ag.viewport.height))

\* _execute_gemini_function_calls, fname == "click_at": the first click
\* of an agent
click_at(a, args) ==
    /\ agent[a].mouse = None
    /\ agent' = [agent EXCEPT ![a].mouse =
            Some([args |-> args,
                  actual_x |-> _denormalize_x(agent[a], args.x),
                  actual_y |-> _denormalize_y(agent[a], args.y)])]
    /\ UNCHANGED <<tasks, obj, pc, clock, hist, lock>>

\* Faulty variant of _add_progress: the event is put in front.
_add_progress_first(ag, message, event_type) ==
    [ag EXCEPT !.progress_updates =
        <<[type |-> event_type, message |-> message]>> \o @]

\* _add_progress (the timestamp of an event is read by nothing; a message
\* is the tuple of the pieces its f-string is made of)
_add_progress(ag, message, event_type) ==
    [ag EXCEPT !.progress_updates =
        Append(@, [type |-> event_type, message |-> message])]

\* cleanup_browser: closes a started browser; an error of close() is
\* caught and logged; never raises.
cleanup_browser(ag) ==
    IF ag.browser # "none" THEN [ag EXCEPT !.browser = "closed"] ELSE ag

\* Outcomes of browser.close() and playwright.stop() inside cleanup_browser:
\* called only `if self.browser` / `if self.playwright`, which setup_browser
\* sets and nothing resets.
CloseOutcomes(ag) == IF ag.browser = "none" THEN {"ok"} ELSE {"ok", "raise"}

\* Faulty variant of cleanup_browser_raises: no handler around the calls.
cleanup_browser_uncaught(ag, o) == o = "raise"

\* Whether cleanup_browser raises to its caller, its calls having outcome o:
\* `except Exception as e:` logs the error and the method returns.
cleanup_browser_raises(ag, o) == FALSE

\* Outcomes of a blocking call on the page: it returns, or raises; on a
\* browser that is not open it raises.
PageOutcomes(ag) == IF ag.browser = "open" THEN {"ok", "raise"} ELSE {"raise"}

\* execute_task, except branch: {"ok": False, "error": str(exc)}
ErrorResult(msg) == [ok |-> FALSE, data |-> None, error |-> Some(msg)]
\* execute_task, normal return: {"ok": True, "data": result, ...}
OkResult(data) == [ok |-> TRUE, data |-> Some(data), error |-> None]

\* An exception leaves the loop and is caught by execute_task.
Abort(a, msg) ==
    /\ agent' = [agent EXCEPT ![a].outcome = Some(ErrorResult(msg))]
    /\ pc' = [pc EXCEPT ![a] = "returned"]

\* execute_task: if not self.page: self.setup_browser()
setup_browser(a) ==
    /\ pc[a] = "setup"
    /\ \/ /\ agent' = [agent EXCEPT ![a].browser = "open"]
          /\ pc' = [pc EXCEPT ![a] = "goto"]
       \/ Abort(a, "setup_browser")
    /\ UNCHANGED <<tasks, obj, clock, hist, lock>>

\* execute_task: self.page.goto(url, ...)
page_goto(a) ==
    /\ pc[a] = "goto"
    /\ \E o \in PageOutcomes(agent[a]) :
          IF o = "ok"
          THEN /\ pc' = [pc EXCEPT ![a] = "initial"]
               /\ agent' = agent
          ELSE Abort(a, "goto")
    /\ UNCHANGED <<tasks, obj, clock, hist, lock>>

\* _run_browser_automation_loop up to the for statement: initial
\* screenshot, saved; contents seeded; "Started browser automation".
InitialContents == <<[role |-> "user", parts |-> <<"task", "initial_screenshot">>]>>

initial_screenshot(a) ==
    /\ pc[a] = "initial"
    /\ \E o \in PageOutcomes(agent[a]) :
          IF o = "ok"
          THEN /\ agent' = [agent EXCEPT ![a] =
                    _add_progress(
                        [SaveScreenshot(@, "initial") EXCEPT
                                  !.contents = InitialContents],
                        <<"Started browser automation">>, "info")]
               /\ pc' = [pc EXCEPT ![a] = "turn"]
          ELSE Abort(a, "screenshot")
    /\ UNCHANGED <<tasks, obj, clock, hist, lock>>

\* Faulty variant of TurnsLeft: one turn too many.
TurnsLeftOffByOne(ag) == ag.turn <= max_turns

\* for turn in range(max_turns): the next iteration issues its
\* generate_content request, or the range is used up and the loop returns
\* the maximum-turns message.
TurnsLeft(ag) == ag.turn < max_turns

loop_turn(a) ==
    /\ pc[a] = "turn"
    /\ IF TurnsLeft(agent[a])
       THEN /\ agent' = [agent EXCEPT ![a] =
                 _add_progress([@ EXCEPT !.requests = @ + 1,
                                         !.sent = agent[a].contents],
                               <<"Turn", agent[a].turn + 1, max_turns>>, "turn")]
            /\ pc' = [pc EXCEPT ![a] = "request"]
       ELSE /\ agent' = [agent EXCEPT ![a].outcome = Some(OkResult(MaxTurnsMsg))]
            /\ pc' = [pc EXCEPT ![a] = "returned"]
    /\ UNCHANGED <<tasks, obj, clock, hist, lock>>

\* Faulty variant of contents_append: the last element is overwritten.
contents_overwrite(contents, content) ==
    IF contents = <<>> THEN <<content>>
    ELSE [contents EXCEPT ![Len(contents)] = content]

\* contents.append(...)
contents_append(contents, content) == Append(contents, content)

\* generate_content returns `parts` (or raises); the response is appended;
\* without function calls its text is the final answer, otherwise
\* "Executing browser actions" is logged and the calls are executed.
generate_content(a, R) ==
    /\ pc[a] = "request"
    /\ \/ Abort(a, "generate_content")
       \/ \E parts \in R :
            LET ag == [agent[a] EXCEPT
                         !.contents = contents_append(@, [role |-> "model", parts |-> parts])]
            IN  IF FunctionCalls(parts) = <<>>
                THEN /\ agent' = [agent EXCEPT ![a] =
                          [ag EXCEPT !.text_response = TextResponse(parts)]]
                     /\ pc' = [pc EXCEPT ![a] = "final"]
                ELSE /\ agent' = [agent EXCEPT ![a] =
                          _add_progress(
                              [ag EXCEPT !.calls = FunctionCalls(parts),
                                         !.results = <<>>],
                              <<"Executing browser actions">>, "action")]
                     /\ pc' = [pc EXCEPT ![a] = "dispatch"]
    /\ UNCHANGED <<tasks, obj, clock, hist, lock>>

\* Final answer: the final screenshot is saved and the text returned.
final_screenshot(a) ==
    /\ pc[a] = "final"
    /\ \E o \in PageOutcomes(agent[a]) :
          IF o = "ok"
          THEN /\ agent' = [agent EXCEPT ![a] =
                    [SaveScreenshot(@, "final") EXCEPT
                              !.outcome = Some(OkResult(agent[a].text_response))]]
               /\ pc' = [pc EXCEPT ![a] = "returned"]
          ELSE Abort(a, "screenshot")
    /\ UNCHANGED <<tasks, obj, clock, hist, lock>>

\* _execute_gemini_function_calls, one iteration of its for loop: the
\* action is logged and run; an exception is kept in action_result.
ActionOutcomes(ag, fname) ==
    IF fname \in PageActions THEN PageOutcomes(ag)
    ELSE IF fname \in NavigationActions THEN PageOutcomes(ag)  \* wait_for_load_state
    ELSE {"ok"}

\* The names the dispatch table has a branch for.
SupportedActions ==
    {"open_web_browser", "wait_5_seconds", "go_back", "go_forward", "search",
     "navigate", "click_at", "hover_at", "type_text_at", "key_combination",
     "scroll_document", "scroll_at", "drag_and_drop"}

\* Faulty variant of PageOperation: a name without a branch is taken for a click.
PageOperationDefaultClick(fname) ==
    CASE fname \in {"navigate", "search"} -> Some("goto")
      [] fname = "go_back" -> Some("go_back")
      [] fname = "go_forward" -> Some("go_forward")
      [] fname \in {"hover_at", "scroll_at", "drag_and_drop"} -> Some("mouse.move")
      [] fname \in {"key_combination", "scroll_document"} -> Some("keyboard.press")
      [] fname \in {"open_web_browser", "wait_5_seconds"} -> None
      [] OTHER -> Some("mouse.click")

\* The operation the branch of a name first invokes on the page, if any
\* (the final else only logs a warning).
PageOperation(fname) ==
    CASE fname \in {"navigate", "search"} -> Some("goto")
      [] fname = "go_back" -> Some("go_back")
      [] fname = "go_forward" -> Some("go_forward")
      [] fname \in {"click_at", "type_text_at"} -> Some("mouse.click")
      [] fname \in {"hover_at", "scroll_at", "drag_and_drop"} -> Some("mouse.move")
      [] fname \in {"key_combination", "scroll_document"} -> Some("keyboard.press")
      [] OTHER -> None

\* Faulty variant of ActionResult: the exception is swallowed without a trace.
ActionResultNoError(o) == [error |-> None]

\* action_result = {} / except Exception as e: action_result = {"error": str(e)}
ActionResult(o) == IF o = "ok" THEN [error |-> None] ELSE [error |-> Some("action")]

\* The iteration for the first call still to execute, its page calls
\* having outcome o.
execute_function_call(a, o) ==
    /\ pc[a] = "dispatch"
    /\ LET call == Head(agent[a].calls) IN
          /\ o \in ActionOutcomes(agent[a], call.name)
          /\ agent' = [agent EXCEPT ![a] =
                _add_progress(
                    [@ EXCEPT !.calls = Tail(@),
                              !.inputs = IF PageOperation(call.name) = None THEN @
                                         ELSE Append(@, The(PageOperation(call.name))),
                              !.results = Append(@,
                                  [name |-> call.name, result |-> ActionResult(o),
                                   safety_decision |-> call.safety_decision])],
                    <<"Action", call.name>>, "function_call")]
          /\ pc' = [pc EXCEPT ![a] =
                IF Tail(agent[a].calls) = <<>> THEN "capture" ELSE "dispatch"]
    /\ UNCHANGED <<tasks, obj, clock, hist, lock>>

_execute_gemini_function_calls(a) ==
    \E o \in {"ok", "raise"} : execute_function_call(a, o)

\* Faulty variant of FunctionResponse: the safety decision is not acknowledged.
FunctionResponseNoAck(r, screenshot_bytes) ==
    [name |-> r.name, response |-> [url |-> "current_url", error |-> r.result.error],
     parts |-> <<screenshot_bytes>>,
     safety_decision_acknowledgment |-> None]

\* _get_gemini_function_responses: one screenshot, one FunctionResponse
\* per result, with the safety decision acknowledged when present.
FunctionResponse(r, screenshot_bytes) ==
    [name |-> r.name, response |-> [url |-> "current_url", error |-> r.result.error],
     parts |-> <<screenshot_bytes>>,
     safety_decision_acknowledgment |-> r.safety_decision]

_get_gemini_function_responses(a) ==
    /\ pc[a] = "capture"
    /\ \E o \in PageOutcomes(agent[a]) :
          IF o = "ok"
          THEN /\ agent' = [agent EXCEPT ![a] =
                    [Capture(@) EXCEPT !.function_responses =
                        [i \in 1 .. Len(agent[a].results) |->
                            FunctionResponse(agent[a].results[i],
                                             agent[a].captures)]]]
               /\ pc' = [pc EXCEPT ![a] = "save"]
          ELSE Abort(a, "screenshot")
    /\ UNCHANGED <<tasks, obj, clock, hist, lock>>

\* End of a turn with actions: the screenshot is saved, the reply turn
\* appended, and the for loop moves to the next turn.
save_screenshot(a) ==
    /\ pc[a] = "save"
    /\ \E o \in PageOutcomes(agent[a]) :
          IF o = "ok"
          THEN /\ agent' = [agent EXCEPT ![a] =
                    [SaveScreenshot(@, "") EXCEPT
                              !.contents = contents_append(@,
                                  [role |-> "user", parts |-> agent[a].function_responses]),
                              !.turn = @ + 1]]
               /\ pc' = [pc EXCEPT ![a] = "turn"]
          ELSE Abort(a, "screenshot")
    /\ UNCHANGED <<tasks, obj, clock, hist, lock>>

\* The steps of execute_task between its call and its return.
AgentStep(a, R) ==
    \/ setup_browser(a)
    \/ page_goto(a)
    \/ initial_screenshot(a)
    \/ loop_turn(a)
    \/ generate_content(a, R)
    \/ final_screenshot(a)
    \/ _execute_gemini_function_calls(a)
    \/ _get_gemini_function_responses(a)
    \/ save_screenshot(a)

--------------------------------------------------------------------------
(* BrowserTask views *)

Terminal == {COMPLETED, FAILED, CANCELLED}

\* Faulty variant of LastThree: the slice is taken at the wrong end, [:3].
FirstThree(p) ==
    IF Len(p) <= 3 THEN p ELSE SubSeq(p, 1, 3)

\* self.progress_updates[-3:]
LastThree(p) ==
    IF Len(p) <= 3 THEN p ELSE SubSeq(p, Len(p) - 2, Len(p))

\* BrowserTask.to_dict
to_dict(task) ==
    [status |-> task.status, started_at |-> task.started_at,
     completed_at |-> task.completed_at, progress |-> task.progress_updates,
     result |-> task.result, error |-> task.error]

\* BrowserTask.to_compact_dict
to_compact_dict(task) ==
    LET recent_progress ==
            [i \in 1 .. Len(LastThree(task.progress_updates)) |->
                LastThree(task.progress_updates)[i].message]
        compact ==
            [status |-> task.status, started_at |-> task.started_at,
             completed_at |-> task.completed_at,
             progress_summary |->
                [total_steps |-> Len(task.progress_updates),
                 recent_actions |-> recent_progress]]
    IN  IF task.status = COMPLETED THEN compact @@ [result |-> task.result]
        ELSE IF task.status = FAILED THEN compact @@ [error |-> task.error]
        ELSE compact

--------------------------------------------------------------------------
(* BrowserTaskManager *)

\* `with self._lock:` is entered when no other thread is inside such a block
LockFree == lock = None

\* datetime.now(timezone.utc): not before the last reading
Now == {t \in {clock, clock + 1} : t <= MaxClock}

\* uuid.uuid4(): an id no task has had
FreshId == CHOOSE id \in TaskIds : obj[id] = NoTask /\ \A k \in TaskIds : k < id => obj[k] # NoTask

create_task ==
    /\ LockFree
    /\ \E id \in TaskIds : obj[id] = NoTask
    /\ tasks' = tasks \cup {FreshId}
    /\ obj' = [obj EXCEPT ![FreshId] = BrowserTask]
    /\ UNCHANGED <<agent, pc, clock, hist, lock>>

\* Faulty variant of CanStart: the status is not looked at.
CanStartAnyStatus(task_id) == task_id \in tasks

\* start_task: `if not task or task.status != TaskStatus.PENDING: return False`
CanStart(task_id) == task_id \in tasks /\ obj[task_id].status = PENDING

\* The model follows the background thread of one job: callers start no
\* job once the thread of another one has been launched.
OneThread(task_id) == \A k \in TaskIds \ {task_id} : pc[k] = "none"

\* Faulty variant of StartedRecord: the start time is not recorded.
StartedRecordNoStamp(task, t) == [task EXCEPT !.status = RUNNING]

\* start_task: the writes under the lock
StartedRecord(task, t) == [task EXCEPT !.status = RUNNING, !.started_at = Some(t)]

start_task(task_id) ==
    /\ LockFree
    /\ OneThread(task_id)
    /\ IF CanStart(task_id)
       THEN \E t \in Now :
            /\ obj' = [obj EXCEPT ![task_id] = StartedRecord(@, t)]
            /\ clock' = t
            /\ pc' = [pc EXCEPT ![task_id] = "lookup"]      \* thread.start()
            /\ hist' = [hist EXCEPT !.launched[task_id] = @ + 1,
                                    !.started[task_id] = @ + 1]   \* return True
            /\ UNCHANGED <<tasks, agent, lock>>
       ELSE UNCHANGED <<tasks, obj, agent, pc, clock, hist, lock>>       \* return False

\* _execute_task: `with self._lock: task = self.tasks.get(task_id)`
_execute_task_lookup(task_id) ==
    /\ LockFree
    /\ pc[task_id] = "lookup"
    /\ pc' = [pc EXCEPT ![task_id] = IF task_id \in tasks THEN "create" ELSE "done"]
    /\ UNCHANGED <<tasks, obj, agent, clock, hist, lock>>

\* _execute_task: agent = GeminiBrowserAgent(...); task.agent = agent;
\* the constructor may raise (no API key), which the except branch takes.
_execute_task_create_agent(task_id) ==
    /\ pc[task_id] = "create"
    /\ \/ /\ agent' = [agent EXCEPT ![task_id] = GeminiBrowserAgent]
          /\ obj' = [obj EXCEPT ![task_id].agent = TRUE]
          /\ pc' = [pc EXCEPT ![task_id] = "setup"]
       \/ /\ pc' = [pc EXCEPT ![task_id] = "except"]
          /\ UNCHANGED <<agent, obj>>
    /\ UNCHANGED <<tasks, clock, hist, lock>>

\* Faulty variant of CompletedRecord: a status that is already terminal is kept,
\* the other fields are written all the same.
CompletedRecordKeepStatus(task, result, progress, t) ==
    [task EXCEPT !.result = Some(result), !.progress_updates = progress,
                 !.status = IF @ \in {COMPLETED, FAILED, CANCELLED} THEN @ ELSE COMPLETED,
                 !.completed_at = Some(t)]

\* _execute_task: the writes after execute_task returned
CompletedRecord(task, result, progress, t) ==
    [task EXCEPT !.result = Some(result), !.progress_updates = progress,
                 !.status = COMPLETED, !.completed_at = Some(t)]

\* Faulty variant of _execute_task_completed: the record is stored back
\* under its id.
_execute_task_completed_stored(task_id) ==
    /\ LockFree
    /\ pc[task_id] = "returned"
    /\ \E t \in Now :
          /\ obj' = [obj EXCEPT ![task_id] =
                CompletedRecord(@, The(agent[task_id].outcome),
                                agent[task_id].progress_updates, t)]
          /\ clock' = t
    /\ tasks' = tasks \cup {task_id}
    /\ pc' = [pc EXCEPT ![task_id] = "finally"]
    /\ UNCHANGED <<agent, hist, lock>>

_execute_task_completed(task_id) ==
    /\ LockFree
    /\ pc[task_id] = "returned"
    /\ \E t \in Now :
          /\ obj' = [obj EXCEPT ![task_id] =
                CompletedRecord(@, The(agent[task_id].outcome),
                                agent[task_id].progress_updates, t)]
          /\ clock' = t
    /\ pc' = [pc EXCEPT ![task_id] = "finally"]
    /\ UNCHANGED <<tasks, agent, hist, lock>>

\* _execute_task: the writes of `except Exception as e`
FailedRecord(task, e, t) ==
    [task EXCEPT !.error = Some(e), !.status = FAILED, !.completed_at = Some(t)]

_execute_task_except(task_id) ==
    /\ LockFree
    /\ pc[task_id] = "except"
    /\ \E t \in Now :
          /\ obj' = [obj EXCEPT ![task_id] = FailedRecord(@, "GeminiBrowserAgent", t)]
          /\ clock' = t
    /\ pc' = [pc EXCEPT ![task_id] = "finally"]
    /\ UNCHANGED <<tasks, agent, hist, lock>>

\* Faulty variant of _execute_task_finally: the thread ends without the teardown.
_execute_task_no_finally(task_id) ==
    /\ pc[task_id] = "finally"
    /\ pc' = [pc EXCEPT ![task_id] = "done"]
    /\ UNCHANGED <<tasks, obj, agent, clock, hist, lock>>

\* _execute_task: finally: if task.agent: task.agent.cleanup_browser()
_execute_task_finally(task_id) ==
    /\ pc[task_id] = "finally"
    /\ agent' = [agent EXCEPT ![task_id] =
            IF obj[task_id].agent THEN cleanup_browser(@) ELSE @]
    /\ \E o \in CloseOutcomes(agent[task_id]) :
          pc' = [pc EXCEPT ![task_id] =
                    IF obj[task_id].agent /\ cleanup_browser_raises(agent[task_id], o)
                    THEN "raised" ELSE "done"]
    /\ UNCHANGED <<tasks, obj, clock, hist, lock>>

\* Faulty variant of RefreshedRecord: the status is not looked at.
RefreshedRecordAnyStatus(task, ag) ==
    IF task.agent
    THEN [task EXCEPT !.progress_updates = ag.progress_updates]
    ELSE task

\* get_task_status: live progress is pulled `if task.status == RUNNING and task.agent`
RefreshedRecord(task, ag) ==
    IF task.status = RUNNING /\ task.agent
    THEN [task EXCEPT !.progress_updates = ag.progress_updates]
    ELSE task

\* Faulty variant of get_task_status: a missing id gets a record (the table
\* read with a default that is stored).
get_task_status_setdefault(task_id, compact) ==
    /\ LockFree
    /\ IF task_id \notin tasks
       THEN /\ tasks' = tasks \cup {task_id}
            /\ obj' = [obj EXCEPT ![task_id] = BrowserTask]
            /\ UNCHANGED <<agent, pc, clock, hist, lock>>
       ELSE /\ obj' = [obj EXCEPT ![task_id] = RefreshedRecord(@, agent[task_id])]
            /\ UNCHANGED <<tasks, agent, pc, clock, hist, lock>>

\* get_task_status: the value returned, None for an id that is no key of
\* the table
get_task_status_returns(task_id, compact) ==
    IF task_id \notin tasks THEN None
    ELSE LET task == RefreshedRecord(obj[task_id], agent[task_id])
         IN  Some(IF compact THEN to_compact_dict(task) ELSE to_dict(task))

\* server.py, check_web_task: the result made of that value
check_web_task(task_id, compact) ==
    LET status == get_task_status_returns(task_id, compact) IN
    IF status = None
    THEN [ok |-> FALSE, error |-> Some(<<"Task", task_id, "not found">>), status |-> None]
    ELSE [ok |-> TRUE, error |-> None, status |-> status]

get_task_status(task_id, compact) ==
    /\ LockFree
    /\ IF task_id \notin tasks
       THEN UNCHANGED <<tasks, obj, agent, pc, clock, hist, lock>>
       ELSE LET task == RefreshedRecord(obj[task_id], agent[task_id]) IN
            /\ obj' = [obj EXCEPT ![task_id] = task]
            /\ UNCHANGED <<tasks, agent, pc, clock, hist, lock>>

\* Faulty variant of CanCancel: the status is not looked at.
CanCancelAnyStatus(task_id) == task_id \in tasks

\* cancel_task: `if not task or task.status not in [PENDING, RUNNING]: return False`
CanCancel(task_id) == task_id \in tasks /\ obj[task_id].status \in {PENDING, RUNNING}

\* Faulty variant of CancelledRecord: the completion time is not stamped.
CancelledRecordNoStamp(task, t) == [task EXCEPT !.status = CANCELLED]

\* cancel_task: the writes under the lock
CancelledRecord(task, t) == [task EXCEPT !.status = CANCELLED, !.completed_at = Some(t)]

\* cancel_task: the value returned
cancel_task_returns(task_id) == CanCancel(task_id)

\* server.py, stop_web_task: the result made of that value
stop_web_task(task_id) ==
    IF cancel_task_returns(task_id)
    THEN [ok |-> TRUE, message |-> Some(<<"Task", task_id, "cancelled successfully">>),
          error |-> None]
    ELSE [ok |-> FALSE, message |-> None,
          error |-> Some(<<"Could not cancel task", task_id>>)]

\* The whole call as one step: what the other users of the lock, who wait
\* until it is released, can see of it.
cancel_task(task_id) ==
    /\ LockFree
    /\ IF CanCancel(task_id)
       THEN \E t \in Now :
               /\ obj' = [obj EXCEPT ![task_id] = CancelledRecord(@, t)]
               /\ clock' = t
               /\ agent' = [agent EXCEPT ![task_id] =
                       IF obj[task_id].agent THEN cleanup_browser(@) ELSE @]
               /\ \E o \in CloseOutcomes(agent[task_id]) :
                     hist' = IF obj[task_id].agent
                                /\ cleanup_browser_raises(agent[task_id], o)
                             THEN hist
                             ELSE [hist EXCEPT !.cancelled[task_id] = @ + 1]   \* return True
               /\ UNCHANGED <<tasks, pc, lock>>
       ELSE UNCHANGED <<tasks, obj, agent, pc, clock, hist, lock>>       \* return False

\* The same call in the two steps its thread takes when the record has an
\* agent: the block is entered, the record written and
\* task.agent.cleanup_browser() called, still inside the block ...
InCleanup(task_id) ==
    [holder |-> "cancel_task", task_id |-> task_id, waiting_for |-> "cleanup_browser"]

CallsCleanup(task_id) == CanCancel(task_id) /\ obj[task_id].agent

cancel_task_call_cleanup(task_id) ==
    /\ LockFree
    /\ CallsCleanup(task_id)
    /\ \E t \in Now :
          /\ obj' = [obj EXCEPT ![task_id] = CancelledRecord(@, t)]
          /\ clock' = t
    /\ lock' = Some(InCleanup(task_id))
    /\ UNCHANGED <<tasks, agent, pc, hist>>

\* ... and browser.close() and playwright.stop() have returned: return
\* True leaves the block.
cancel_task_return(task_id) ==
    /\ lock = Some(InCleanup(task_id))
    /\ agent' = [agent EXCEPT ![task_id] = cleanup_browser(@)]
    /\ \E o \in CloseOutcomes(agent[task_id]) :
          hist' = IF cleanup_browser_raises(agent[task_id], o) THEN hist
                  ELSE [hist EXCEPT !.cancelled[task_id] = @ + 1]
    /\ lock' = None
    /\ UNCHANGED <<tasks, obj, pc, clock>>

\* list_tasks: the value returned, [task.to_dict() for task in
\* self.tasks.values()]; the table keeps its keys in the order they were
\* inserted, which is the order of the ids.
list_tasks_returns ==
    LET ids == CHOOSE s \in [1 .. Cardinality(tasks) -> tasks] :
                   \A i, j \in DOMAIN s : i < j => s[i] < s[j]
    IN  [i \in 1 .. Cardinality(tasks) |-> to_dict(obj[ids[i]])]

\* server.py, list_web_tasks: the result made of that value
list_web_tasks ==
    LET listed == list_tasks_returns
        active_count ==
            Cardinality({i \in DOMAIN listed : listed[i].status \in {"pending", "running"}})
    IN  [ok |-> TRUE, tasks |-> listed, count |-> Len(listed),
         active_count |-> active_count]

list_tasks ==
    /\ LockFree
    /\ UNCHANGED <<tasks, obj, agent, pc, clock, hist, lock>>

\* Faulty variant of ToRemove: a record just as old as the threshold goes too.
ToRemoveInclusive(max_age_hours, t) ==
    {id \in tasks :
        /\ obj[id].status \in {COMPLETED, FAILED, CANCELLED}
        /\ obj[id].completed_at # None
        /\ The(obj[id].completed_at) <= t - max_age_hours}

\* cleanup_old_tasks: the ids it removes, the clock reading being t (the
\* clock counts hours)
ToRemove(max_age_hours, t) ==
    {id \in tasks :
        /\ obj[id].status \in Terminal
        /\ obj[id].completed_at # None
        /\ The(obj[id].completed_at) < t - max_age_hours}

cleanup_old_tasks(max_age_hours) ==
    \E t \in Now :
        /\ LockFree
        /\ tasks' = tasks \ ToRemove(max_age_hours, t)
        /\ clock' = t
        /\ UNCHANGED <<obj, agent, pc, hist, lock>>

--------------------------------------------------------------------------
(* server.py: browse_web *)

\* browse_web up to the executor call: the agent is constructed outside
\* the try statement, so an exception of the constructor leaves the tool.
browse_web(a) ==
    /\ pc[a] = "none"
    /\ \/ /\ agent' = [agent EXCEPT ![a] = GeminiBrowserAgent]
          /\ pc' = [pc EXCEPT ![a] = "setup"]
       \/ /\ pc' = [pc EXCEPT ![a] = "raised"]
          /\ agent' = agent
    /\ UNCHANGED <<tasks, obj, clock, hist, lock>>

\* browse_web: return result; finally: agent.cleanup_browser()
browse_web_return(a) ==
    /\ pc[a] = "returned"
    /\ agent' = [agent EXCEPT ![a] = cleanup_browser(@)]
    /\ \E o \in CloseOutcomes(agent[a]) :
          pc' = [pc EXCEPT ![a] =
                    IF cleanup_browser_raises(agent[a], o) THEN "raised" ELSE "done"]
    /\ UNCHANGED <<tasks, obj, clock, hist, lock>>

--------------------------------------------------------------------------
(* Specifications *)

Init ==
    /\ tasks = {}
    /\ obj = [id \in TaskIds |-> NoTask]
    /\ agent = [a \in Owners |-> GeminiBrowserAgent]
    /\ pc = [a \in Owners |-> "none"]
    /\ clock = 0
    /\ hist = [launched |-> [id \in TaskIds |-> 0],
               started |-> [id \in TaskIds |-> 0],
               cancelled |-> [id \in TaskIds |-> 0]]
    /\ lock = None

\* The job manager with its background threads.
Next ==
    \/ create_task
    \/ \E id \in TaskIds : start_task(id)
    \/ \E id \in TaskIds : \E compact \in BOOLEAN : get_task_status(id, compact)
    \/ \E id \in TaskIds : cancel_task(id)
    \/ list_tasks
    \/ \E age \in 0 .. MaxAge : cleanup_old_tasks(age)
    \/ \E id \in TaskIds : _execute_task_lookup(id)
    \/ \E id \in TaskIds : _execute_task_create_agent(id)
    \/ \E id \in TaskIds : AgentStep(id, JobResponses)
    \/ \E id \in TaskIds : _execute_task_completed(id)
    \/ \E id \in TaskIds : _execute_task_except(id)
    \/ \E id \in TaskIds : _execute_task_finally(id)

Spec == Init /\ [][Next]_vars

\* One synchronous browse_web call.
NextLoop ==
    \/ browse_web(Sync)
    \/ AgentStep(Sync, SyncResponses)
    \/ browse_web_return(Sync)

SpecLoop == Init /\ [][NextLoop]_vars

\* The job manager with cancel_task in the steps of its thread.
NextLock ==
    \/ create_task
    \/ \E id \in TaskIds : start_task(id)
    \/ \E id \in TaskIds : \E compact \in BOOLEAN : get_task_status(id, compact)
    \/ \E id \in TaskIds : ~ CallsCleanup(id) /\ cancel_task(id)
    \/ \E id \in TaskIds : cancel_task_call_cleanup(id)
    \/ \E id \in TaskIds : cancel_task_return(id)
    \/ list_tasks
    \/ \E age \in 0 .. MaxAge : cleanup_old_tasks(age)
    \/ \E id \in TaskIds : _execute_task_lookup(id)
    \/ \E id \in TaskIds : _execute_task_create_agent(id)
    \/ \E id \in TaskIds : AgentStep(id, JobResponses)
    \/ \E id \in TaskIds : _execute_task_completed(id)
    \/ \E id \in TaskIds : _execute_task_except(id)
    \/ \E id \in TaskIds : _execute_task_finally(id)

SpecLock == Init /\ [][NextLock]_vars

\* One click of the agent of a browse_web call, for the coordinates the
\* decision service may send (the same on both axes) and some viewports
\* the environment may set.
Coordinates == 0 .. 999
Viewports ==
    {[width |-> SCREEN_WIDTH, height |-> SCREEN_HEIGHT],
     [width |-> 1280, height |-> 720],
     [width |-> 100, height |-> 50],
     [width |-> 1, height |-> 1]}

InitMapper ==
    /\ tasks = {}
    /\ obj = [id \in TaskIds |-> NoTask]
    /\ \E v \in Viewports :
          agent = [a \in Owners |-> [GeminiBrowserAgent EXCEPT !.viewport = v]]
    /\ pc = [a \in Owners |-> "none"]
    /\ clock = 0
    /\ hist = [launched |-> [id \in TaskIds |-> 0],
               started |-> [id \in TaskIds |-> 0],
               cancelled |-> [id \in TaskIds |-> 0]]
    /\ lock = None

NextMapper == \E c \in Coordinates : click_at(Sync, [x |-> c, y |-> c])

SpecMapper == InitMapper /\ [][NextMapper]_vars

\* The steps of the background thread of a job: the body of _execute_task.
ThreadStep(task_id) ==
    \/ _execute_task_lookup(task_id)
    \/ _execute_task_create_agent(task_id)
    \/ AgentStep(task_id, JobResponses)
    \/ _execute_task_completed(task_id)
    \/ _execute_task_except(task_id)
    \/ _execute_task_finally(task_id)

\* The steps of the executor thread of browse_web, and its return.
BrowseStep(a) ==
    \/ AgentStep(a, JobResponses)
    \/ browse_web_return(a)

\* What creates, runs, cancels and removes agent loops, one loop being
\* followed at a time: the loop of a browse_web call on a manager without
\* jobs, or the loops of the manager's jobs (the two share no object).
\* The queries get_task_status and list_tasks are left out: they write
\* nothing but the progress copy of a record, which no thread reads.
ManagerStep ==
    \/ create_task
    \/ \E id \in TaskIds : start_task(id)
    \/ \E id \in TaskIds : cancel_task(id)
    \/ \E age \in 0 .. MaxAge : cleanup_old_tasks(age)

NextTeardown ==
    \/ pc[Sync] = "none" /\ ManagerStep
    \/ pc[Sync] = "none" /\ \E id \in TaskIds : ThreadStep(id)
    \/ (\A id \in TaskIds : obj[id] = NoTask) /\ browse_web(Sync)
    \/ BrowseStep(Sync)

\* A thread that can take a step takes one: the threads are scheduled and
\* the external calls they wait for return (or raise).  Nothing obliges a
\* caller to call.
Fairness ==
    /\ \A id \in TaskIds : WF_vars(ThreadStep(id))
    /\ WF_vars(BrowseStep(Sync))

SpecTeardown == Init /\ [][NextTeardown]_vars /\ Fairness

--------------------------------------------------------------------------
(* Properties *)

Exists(id) == obj[id] # NoTask

\* page actions dispatched so far by an agent: one "function_call" event each
Dispatched(ag) ==
    Cardinality({i \in DOMAIN ag.progress_updates :
                    ag.progress_updates[i].type = "function_call"})

\* C1: once a record is terminal, its status, completed_at, result, error
\* and progress never change again, whatever runs afterwards (a late
\* return or exception of the job's own loop thread included).
TerminalRecordFrozen ==
    [][\A id \in TaskIds :
          obj[id].status \in Terminal =>
              /\ obj'[id].status = obj[id].status
              /\ obj'[id].completed_at = obj[id].completed_at
              /\ obj'[id].result = obj[id].result
              /\ obj'[id].error = obj[id].error
              /\ obj'[id].progress_updates = obj[id].progress_updates]_vars

\* C2: the status of a job only moves forward along
\* pending -> running -> {completed, failed, cancelled}, or pending ->
\* cancelled; no other change of status happens.
ForwardMoves ==
    {<<"absent", PENDING>>, <<PENDING, RUNNING>>, <<PENDING, CANCELLED>>,
     <<RUNNING, COMPLETED>>, <<RUNNING, FAILED>>, <<RUNNING, CANCELLED>>}

StatusMovesForward ==
    [][\A id \in TaskIds :
          obj'[id].status # obj[id].status =>
              <<obj[id].status, obj'[id].status>> \in ForwardMoves]_vars

\* C3: when the decision-service request raised during the run of a job
\* that was not cancelled, the record the thread leaves behind has
\* status failed and the captured message as its error.
RunFailureMarksFailed ==
    \A id \in TaskIds :
        /\ pc[id] \in {"finally", "done"}
        /\ obj[id].agent
        /\ hist.cancelled[id] = 0
        /\ agent[id].outcome = Some(ErrorResult("generate_content"))
        => /\ obj[id].status = FAILED
           /\ obj[id].error = Some("generate_content")

\* C4: completed_at is set if and only if the status is terminal.
CompletedAtIffTerminal ==
    \A id \in TaskIds :
        Exists(id) => ((obj[id].completed_at # None) <=> (obj[id].status \in Terminal))

CompletedAtWitness ==
    \E id \in TaskIds :
        /\ Exists(id)
        /\ obj[id].status = CANCELLED
        /\ obj[id].completed_at # None
        /\ pc[id] \in {"setup", "goto", "initial", "turn", "request"}

\* C5: result is set if and only if the status is completed, and error is
\* set if and only if the status is failed.
ResultErrorMatchStatus ==
    \A id \in TaskIds :
        Exists(id) =>
            /\ (obj[id].result # None) <=> (obj[id].status = COMPLETED)
            /\ (obj[id].error # None) <=> (obj[id].status = FAILED)

\* cancel_task returned True and the loop thread finished afterwards
CancelRaceWitness ==
    \E id \in TaskIds :
        /\ hist.cancelled[id] = 1
        /\ pc[id] = "done"
        /\ obj[id].result # None

\* C6: cancel_task on a pending or running job returns True, sets the
\* status to cancelled and stamps completed_at, leaving the other records
\* alone; on a terminal or missing job it returns False and changes
\* nothing.
CancelContract ==
    [][\A id \in TaskIds :
          cancel_task(id) =>
              IF id \in tasks /\ obj[id].status \in {PENDING, RUNNING}
              THEN /\ hist'.cancelled[id] = hist.cancelled[id] + 1
                   /\ obj'[id].status = CANCELLED
                   /\ obj'[id].completed_at # None
                   /\ tasks' = tasks
                   /\ \A k \in TaskIds \ {id} : obj'[k] = obj[k]
              ELSE UNCHANGED <<tasks, obj, hist>>]_vars

CancelWitness ==
    \E id \in TaskIds :
        /\ hist.cancelled[id] = 1
        /\ obj[id].status = CANCELLED
        /\ obj[id].started_at # None

\* C7: once cancel_task has returned True for a running job, its loop
\* issues no new decision-service request and dispatches no new action.
NoTurnAfterCancel ==
    [][\A id \in TaskIds :
          /\ Exists(id)
          /\ obj[id].status = CANCELLED
          /\ obj[id].started_at # None
          => /\ agent'[id].requests = agent[id].requests
             /\ Dispatched(agent'[id]) = Dispatched(agent[id])]_vars

\* C8: start_task on a pending job returns True, sets the status to
\* running and started_at and launches the thread; on a missing job or a
\* job in another status it returns False and changes nothing.
StartContract ==
    [][\A id \in TaskIds :
          start_task(id) =>
              IF id \in tasks /\ obj[id].status = PENDING
              THEN /\ hist'.started[id] = hist.started[id] + 1
                   /\ hist'.launched[id] = hist.launched[id] + 1
                   /\ obj'[id].status = RUNNING
                   /\ obj'[id].started_at # None
                   /\ pc'[id] = "lookup"
              ELSE UNCHANGED vars]_vars

StartWitness ==
    \E id \in TaskIds :
        /\ hist.started[id] = 1
        /\ obj[id].status = RUNNING
        /\ obj[id].started_at # None

\* C9: of all start_task calls for one job at most one returns True and at
\* most one thread is launched; once the job has left pending by a start,
\* exactly one call has returned True.
OneStartWins ==
    \A id \in TaskIds :
        /\ hist.started[id] <= 1
        /\ hist.launched[id] <= 1
        /\ (Exists(id) /\ obj[id].started_at # None) =>
              (hist.started[id] = 1 /\ hist.launched[id] = 1)

OneStartWitness ==
    \E id \in TaskIds :
        /\ hist.started[id] = 1
        /\ hist.launched[id] = 1
        /\ pc[id] = "done"
        /\ ~ CanStart(id)

\* C10: the loop never issues more than max_turns requests; when every
\* request was answered with at least one function call and every reply
\* turn was appended, the loop has issued exactly max_turns requests when
\* execute_task returns, and it returns ok with the maximum-turns message.
ModelTurns(ag) == {i \in DOMAIN ag.contents : ag.contents[i].role = "model"}

EveryTurnHadActions(ag) ==
    /\ Len(ag.contents) = 1 + 2 * ag.requests
    /\ \A i \in ModelTurns(ag) : FunctionCalls(ag.contents[i].parts) # <<>>

TurnBudget ==
    LET ag == agent[Sync] IN
    /\ ag.requests <= max_turns
    /\ (pc[Sync] \in {"returned", "done"} /\ EveryTurnHadActions(ag)) =>
          /\ ag.requests = max_turns
          /\ ag.outcome = Some(OkResult(MaxTurnsMsg))

TurnBudgetWitness ==
    /\ pc[Sync] = "done"
    /\ EveryTurnHadActions(agent[Sync])
    /\ agent[Sync].requests = max_turns
    /\ agent[Sync].outcome = Some(OkResult(MaxTurnsMsg))

\* C11: when a response of the decision service holds no function call,
\* the loop appends it to the conversation, dispatches no action for it,
\* issues no further request, and, its last screenshot being written,
\* leaves exactly one file labelled final (the last one written) and
\* returns the text fragments of that response concatenated in order, a
\* single space between two of them; no file labelled final exists
\* otherwise.
Fragments(parts) ==
    LET texts == SelectSeq(parts, LAMBDA p : p.text # None)
    IN  [i \in 1 .. Len(texts) |-> The(texts[i].text)]

JoinedBySpaces(fragments) ==
    [i \in 1 .. (IF fragments = <<>> THEN 0 ELSE 2 * Len(fragments) - 1) |->
        IF i % 2 = 1 THEN fragments[(i + 1) \div 2] ELSE " "]

LastContent(ag) == ag.contents[Len(ag.contents)]

AnsweredWithoutActions(ag) ==
    /\ ag.contents # <<>>
    /\ LastContent(ag).role = "model"
    /\ \A i \in DOMAIN LastContent(ag).parts :
           LastContent(ag).parts[i].function_call = None

CallsRequested(ag) ==
    LET N[i \in 0 .. Len(ag.contents)] ==
            IF i = 0 THEN 0
            ELSE IF ag.contents[i].role = "model"
                 THEN N[i - 1] + Len(FunctionCalls(ag.contents[i].parts))
                 ELSE N[i - 1]
    IN  N[Len(ag.contents)]

FinalScreenshots(ag) ==
    {i \in DOMAIN ag.screenshots : ag.screenshots[i].label = "final"}

Names(calls) == [i \in DOMAIN calls |-> calls[i].name]

Errors(results) == [i \in DOMAIN results |-> results[i].result.error]

ActionErrorContained ==
    [][LET ag == agent[Sync]
           after == agent'[Sync]
       IN  /\ execute_function_call(Sync, "raise") =>
                 /\ after.results =
                       Append(ag.results,
                              [name |-> Head(ag.calls).name,
                               result |-> [error |-> Some("action")],
                               safety_decision |-> Head(ag.calls).safety_decision])
                 /\ after.calls = Tail(ag.calls)
                 /\ after.outcome = None
                 /\ pc'[Sync] = IF after.calls # <<>> THEN "dispatch" ELSE "capture"
           /\ (pc[Sync] = "dispatch" /\ pc'[Sync] = "capture") =>
                 Names(after.results) = Names(FunctionCalls(LastContent(ag).parts))
           /\ (pc[Sync] = "save" /\ pc'[Sync] = "turn") =>
                 /\ Len(after.contents) = Len(ag.contents) + 1
                 /\ SubSeq(after.contents, 1, Len(ag.contents)) = ag.contents
                 /\ LastContent(after).role = "user"
                 /\ Names(LastContent(after).parts) = Names(ag.results)
                 /\ [i \in DOMAIN ag.results |->
                        LastContent(after).parts[i].response.error] = Errors(ag.results)
                 /\ after.turn = ag.turn + 1
                 /\ after.outcome = None]_vars

\* the first of two actions raised, the second one ran, and the loop
\* went on to a further request
ActionErrorWitness ==
    LET ag == agent[Sync] IN
    /\ Len(ag.contents) >= 4
    /\ Names(ag.contents[3].parts) = <<"navigate", "click_at">>
    /\ ag.contents[3].parts[1].response.error = Some("action")
    /\ ag.contents[3].parts[2].response.error = None
    /\ ag.requests = 2

\* C13: every agent loop that was launched (its agent constructed, for a
\* job's thread or for browse_web) is eventually followed by the end of
\* its thread with the browser torn down, whether the loop returns,
\* fails or its job is cancelled; so is the thread of a job cancelled
\* before the thread attached its agent to the record.
TornDown(a) == pc[a] = "done" /\ agent[a].browser # "open"

CancelledBeforeAttach(a) ==
    /\ a \in TaskIds
    /\ pc[a] \in {"lookup", "create"}
    /\ obj[a].status = CANCELLED

TeardownFollows ==
    \A a \in Owners : (pc[a] = "setup" \/ CancelledBeforeAttach(a)) ~> TornDown(a)

\* a cancelled job whose loop returned an answer all the same, its thread
\* ended and its browser closed
TeardownWitness ==
    \E id \in TaskIds :
        /\ hist.cancelled[id] = 1
        /\ pc[id] = "done"
        /\ agent[id].browser = "closed"
        /\ agent[id].outcome # None
        /\ The(agent[id].outcome).ok

\* C14: no operation of the manager is inside a `with self._lock:`
\* block while it waits for a blocking browser or network call, so that a
\* status or list call of another caller can always enter its block.
BlockingCalls == {"cleanup_browser"}

LockNotHeldWhileBlocked ==
    /\ \A h \in lock : h.waiting_for \notin BlockingCalls
    /\ ENABLED list_tasks
    /\ \A id \in TaskIds : ENABLED get_task_status(id, TRUE)

\* C15: a browse_web call whose setup fails (the agent cannot be
\* constructed for want of the API key, or the browser does not start)
\* never ends with an exception leaving the tool; it returns a result
\* with ok = false and an error message.
SetupFailureIsResult ==
    /\ pc[Sync] # "raised"
    /\ (pc[Sync] \in {"returned", "done"} /\ agent[Sync].browser = "none") =>
          /\ ~ The(agent[Sync].outcome).ok
          /\ The(agent[Sync].outcome).error # None

\* C16: for an id that is no key of the table, get_task_status returns
\* None and check_web_task ok = false with a not-found message,
\* cancel_task returns False and stop_web_task ok = false; both calls
\* return (nothing is raised), add no record and change no record.
NotFoundReported(id) ==
    /\ \A compact \in BOOLEAN :
          /\ get_task_status_returns(id, compact) = None
          /\ ~ check_web_task(id, compact).ok
          /\ check_web_task(id, compact).error = Some(<<"Task", id, "not found">>)
          /\ ENABLED get_task_status(id, compact)
    /\ ~ cancel_task_returns(id)
    /\ ~ stop_web_task(id).ok
    /\ stop_web_task(id).error # None
    /\ ENABLED cancel_task(id)

UnknownJobContract ==
    /\ [](\A id \in TaskIds : id \notin tasks => NotFoundReported(id))
    /\ [][\A id \in TaskIds :
            (id \notin tasks /\ (cancel_task(id) \/ \E compact \in BOOLEAN :
                                                     get_task_status(id, compact)))
            => UNCHANGED vars]_vars

\* an id whose record was removed from the table by cleanup_old_tasks
UnknownJobWitness ==
    \E id \in TaskIds :
        /\ id \notin tasks
        /\ Exists(id)
        /\ NotFoundReported(id)

\* C17: a call of cleanup_old_tasks(max_age_hours) removes from the
\* table exactly the records that are completed, failed or cancelled and
\* were completed more than max_age_hours before the call; a pending or
\* running record stays whatever its age, and so does a terminal record
\* that is not older than that; no record is changed.
Age(task, now) == now - The(task.completed_at)

GarbageCollectExact ==
    [][\A max_age \in 0 .. MaxAge :
          cleanup_old_tasks(max_age) =>
              /\ tasks' \subseteq tasks
              /\ obj' = obj
              /\ \A id \in tasks :
                    id \notin tasks' <=>
                        /\ obj[id].status \in {COMPLETED, FAILED, CANCELLED}
                        /\ Age(obj[id], clock') > max_age]_vars

\* a completed record that was collected, while the thread of its job
\* had ended
GarbageCollectWitness ==
    \E id \in TaskIds :
        /\ Exists(id)
        /\ id \notin tasks
        /\ obj[id].status = COMPLETED
        /\ pc[id] = "done"
        /\ Age(obj[id], clock) > 0

\* C18: P being the progress events of a job at the time of a status
\* call, the compact view has as recent_actions the messages of the last
\* min(3, |P|) events of P, in order, and total_steps = |P|; the full view
\* has all of P, in order; the compact view has a result field exactly
\* when the status is completed and an error field exactly when it is
\* failed.
JobProgress(id) ==
    IF obj[id].status = RUNNING /\ obj[id].agent
    THEN agent[id].progress_updates
    ELSE obj[id].progress_updates

Min(m, n) == IF m <= n THEN m ELSE n

StatusViews ==
    \A id \in tasks :
        LET P == JobProgress(id)
            k == Min(3, Len(P))
            compact == The(get_task_status_returns(id, TRUE))
            full == The(get_task_status_returns(id, FALSE))
        IN  /\ compact.progress_summary.recent_actions =
                  [i \in 1 .. k |-> P[Len(P) - k + i].message]
            /\ compact.progress_summary.total_steps = Len(P)
            /\ full.progress = P
            /\ "result" \in DOMAIN compact <=> obj[id].status = COMPLETED
            /\ "error" \in DOMAIN compact <=> obj[id].status = FAILED
            /\ obj[id].status = COMPLETED => compact.result = obj[id].result
            /\ obj[id].status = FAILED => compact.error = obj[id].error

\* a running job with more than three events, the record's copy lagging
\* behind the agent's list
StatusViewsWitness ==
    \E id \in tasks :
        /\ obj[id].status = RUNNING
        /\ Len(JobProgress(id)) > 3
        /\ Len(obj[id].progress_updates) < Len(JobProgress(id))
        /\ Len(The(get_task_status_returns(id, TRUE)).progress_summary.recent_actions) = 3

\* C19: create_task can always be called (as long as the model has an
\* id left to hand out); it adds exactly one record, under an id that was
\* no key of the table, and alters no other record; as long as no
\* start_task and no cancel_task on that job has returned True, a status
\* call returns status pending, started_at and completed_at null and no
\* progress (total_steps 0 in the compact view).
NotStarted(id) ==
    id \in tasks /\ hist.started[id] = 0 /\ hist.cancelled[id] = 0

PendingViews(id) ==
    LET compact == The(get_task_status_returns(id, TRUE))
        full == The(get_task_status_returns(id, FALSE))
    IN  /\ compact.status = PENDING /\ full.status = PENDING
        /\ compact.started_at = None /\ full.started_at = None
        /\ compact.completed_at = None /\ full.completed_at = None
        /\ compact.progress_summary.total_steps = 0
        /\ compact.progress_summary.recent_actions = <<>>
        /\ full.progress = <<>>

MapsAsFloor(actual, c, size) ==
    /\ actual = (c * size) \div 1000
    /\ actual \in 0 .. size - 1

MapperIsFloor ==
    \A click \in agent[Sync].mouse :
        LET ag == agent[Sync] IN
        /\ MapsAsFloor(click.actual_x, click.args.x, ag.viewport.width)
        /\ MapsAsFloor(click.actual_y, click.args.y, ag.viewport.height)
        /\ click.args.x + 1 \in Coordinates =>
              click.actual_x <= _denormalize_x(ag, click.args.x + 1)
        /\ click.args.y + 1 \in Coordinates =>
              click.actual_y <= _denormalize_y(ag, click.args.y + 1)

--------------------------------------------------------------------------
(* Safety acknowledgment *)

\* The positions of the reply turns in the conversation of agent a: the
\* contents with role "user" after the first one.
ReplyTurns(a) ==
    {k \in 2 .. Len(agent[a].contents) : agent[a].contents[k].role = "user"}

\* The function calls the reply turn at position k answers.
AnsweredCalls(a, k) == FunctionCalls(agent[a].contents[k - 1].parts)

\* Function responses ack the calls one by one: same name, same safety
\* decision (none when the call has none).
Echoes(responses, calls) ==
    /\ Len(responses) = Len(calls)
    /\ \A i \in 1 .. Len(calls) :
          /\ responses[i].name = calls[i].name
          /\ responses[i].safety_decision_acknowledgment = calls[i].safety_decision

\* C21: every outcome of a reply turn carries the safety-acknowledgment
\* token of the action request it answers, unmodified, also when the
\* action failed, and carries none when the request had none.
SafetyDecisionEchoed ==
    \A a \in Owners :
        /\ \A k \in ReplyTurns(a) :
              Echoes(agent[a].contents[k].parts, AnsweredCalls(a, k))
        /\ pc[a] = "save" =>
              Echoes(agent[a].function_responses,
                     FunctionCalls(LastContent(agent[a]).parts))

\* A reply turn answers a failed action that carried a token and an action
\* that carried none.
SafetyDecisionWitness ==
    \E k \in ReplyTurns(Sync) :
        LET reply == agent[Sync].contents[k].parts IN
        /\ \E i \in 1 .. Len(reply) :
              /\ reply[i].safety_decision_acknowledgment = Some("ack")
              /\ reply[i].response.error # None
        /\ \E i \in 1 .. Len(reply) :
              reply[i].safety_decision_acknowledgment = None

--------------------------------------------------------------------------
(* Progress events *)

\* The categories a progress event may have.
Categories == {"info", "turn", "action", "error"}

\* C22: every progress event appended during a run has one of the
\* categories info, turn, action, error.
ProgressCategories ==
    \A a \in Owners :
        \A i \in 1 .. Len(agent[a].progress_updates) :
            agent[a].progress_updates[i].type \in Categories

--------------------------------------------------------------------------
(* Screenshots of a turn *)

\* The files saved after the actions of a turn, in the order written.
TurnArtifacts(ag) ==
    LET IsTurnArtifact(f) == f.label = ""
    IN  SelectSeq(ag.screenshots, IsTurnArtifact)

\* The function calls of the current response are executed in its order:
\* those executed followed by those still to execute are the calls of the
\* response, and none is left when the screenshot for the reply is taken.
DispatchedInOrder(a) ==
    LET ag == agent[a] IN
    /\ pc[a] \in {"dispatch", "capture", "save"} =>
          Names(ag.results) \o Names(ag.calls) =
              Names(FunctionCalls(LastContent(ag).parts))
    /\ pc[a] \in {"capture", "save"} => ag.calls = <<>>

\* The screenshot attached to every outcome of the j-th reply turn is the
\* one saved as the j-th turn artifact.
AttachedIsPersisted(a) ==
    LET ag == agent[a] IN
    \A k \in ReplyTurns(a) :
        LET j == (k - 1) \div 2 IN
        /\ j <= Len(TurnArtifacts(ag))
        /\ \A i \in 1 .. Len(ag.contents[k].parts) :
              ag.contents[k].parts[i].parts = <<TurnArtifacts(ag)[j].shot>>

\* Between two turns the screenshots taken so far are the initial one and
\* one for each turn done.
OneCapturePerTurn(a) ==
    pc[a] = "turn" => agent[a].captures = 1 + agent[a].turn

\* C23: in a turn with action requests all requests are dispatched in the
\* order of the response before any capture; then exactly one snapshot is
\* captured for the turn, which is both attached to every outcome of the
\* reply turn and persisted as the turn's artifact.
SingleSnapshotPerTurn ==
    \A a \in Owners :
        /\ DispatchedInOrder(a)
        /\ AttachedIsPersisted(a)
        /\ OneCapturePerTurn(a)

\* The number of events of a category in a progress sequence.
EventsOf(p, category) == Cardinality({i \in DOMAIN p : p[i].type = category})

\* The number of function calls the dispatcher has taken so far.
CallsDispatched(ag) == CallsRequested(ag) - Len(ag.calls)

\* One event of category turn for each turn started.
OneTurnEventPerTurn(ag) == EventsOf(ag.progress_updates, "turn") = ag.requests

\* One event of category action for each function call dispatched, once
\* the calls of the current response have all been taken.
OneActionEventPerCall(ag) ==
    ag.calls = <<>> =>
        EventsOf(ag.progress_updates, "action") = CallsDispatched(ag)

\* C24: the progress sequence of a run holds exactly one event of
\* category turn per turn started and exactly one event of category
\* action per action request dispatched, emitted before the action runs
\* (a turn with k action requests contributes k action events).
ProgressEventCounts ==
    \A a \in Owners :
        /\ OneTurnEventPerTurn(agent[a])
        /\ OneActionEventPerCall(agent[a])

--------------------------------------------------------------------------
(* Unknown actions *)

\* C25: an action request whose name the dispatch table has no branch for
\* invokes no operation on the page and yields an outcome without error;
\* the calls that remain and the loop go on as after a successful action.
UnknownActionIsNoOp ==
    [][LET ag == agent[Sync]
           after == agent'[Sync]
       IN  (_execute_gemini_function_calls(Sync)
                /\ Head(ag.calls).name \notin SupportedActions) =>
              /\ after.inputs = ag.inputs
              /\ after.results =
                    Append(ag.results,
                           [name |-> Head(ag.calls).name,
                            result |-> [error |-> None],
                            safety_decision |-> Head(ag.calls).safety_decision])
              /\ after.calls = Tail(ag.calls)
              /\ after.outcome = None
              /\ pc'[Sync] = IF after.calls # <<>> THEN "dispatch" ELSE "capture"]_vars

\* An unknown action was followed by a click in the same turn, both were
\* answered without error, and the loop went on to a further request.
UnknownActionWitness ==
    LET ag == agent[Sync] IN
    /\ Len(ag.contents) >= 3
    /\ Names(ag.contents[3].parts) = <<"zoom", "click_at">>
    /\ ag.contents[3].parts[1].response.error = None
    /\ ag.contents[3].parts[2].response.error = None
    /\ ag.inputs = <<"mouse.click">>
    /\ ag.requests = 2

--------------------------------------------------------------------------
(* Progress seen by status queries *)

IsPrefix(p, q) == Len(p) <= Len(q) /\ SubSeq(q, 1, Len(p)) = p

\* The progress sequence a full status query returns in the current state.
FullProgress(id) == The(get_task_status_returns(id, FALSE)).progress

\* C26: while a job is running, the progress sequence a full status query
\* returns is a prefix of the one any later query returns, and its events
\* are in the order the loop appended them: over any step that leaves the
\* job running, what a query returned before is a prefix of what a query
\* returns after, which is a prefix of the sequence held by the loop.
ProgressGrowsByAppending ==
    [][\A id \in TaskIds :
          (id \in tasks /\ obj[id].status = RUNNING /\ obj'[id].status = RUNNING) =>
             /\ IsPrefix(FullProgress(id), FullProgress(id)')
             /\ IsPrefix(FullProgress(id)', agent'[id].progress_updates)
             /\ get_task_status(id, FALSE) =>
                   obj'[id].progress_updates = FullProgress(id)]_vars

\* A running job was queried when its loop had appended events, and the
\* loop has appended more since.
ProgressGrowsWitness ==
    \E id \in tasks :
        /\ obj[id].status = RUNNING
        /\ obj[id].progress_updates # <<>>
        /\ Len(agent[id].progress_updates) > Len(obj[id].progress_updates)

--------------------------------------------------------------------------
(* Conversation *)

\* C27: within a run the conversation is only appended to and the turns
\* follow one another: the conversation sent with the request of turn
\* k + 1 is the one sent on turn k extended by exactly the response of
\* turn k followed by the reply of turn k, and the request of turn k + 1
\* is issued only when that reply has been appended.
ConversationAppendOnly ==
    [][LET ag == agent[Sync]
           after == agent'[Sync]
           response == after.sent[Len(ag.sent) + 1]
           reply == after.sent[Len(ag.sent) + 2]
       IN  /\ \/ after.contents = ag.contents
              \/ /\ Len(after.contents) = Len(ag.contents) + 1
                 /\ IsPrefix(ag.contents, after.contents)
           /\ after.sent # ag.sent => (loop_turn(Sync) /\ TurnsLeft(ag))
           /\ (loop_turn(Sync) /\ TurnsLeft(ag)) =>
                 /\ after.sent = ag.contents
                 /\ after.contents = ag.contents
                 /\ IF ag.requests = 0 THEN after.sent = InitialContents
                    ELSE /\ Len(after.sent) = Len(ag.sent) + 2
                         /\ IsPrefix(ag.sent, after.sent)
                         /\ response.role = "model"
                         /\ reply.role = "user"
                         /\ Echoes(reply.parts, FunctionCalls(response.parts))
           /\ (pc[Sync] = "request" /\ pc'[Sync] # "returned") =>
                 /\ ag.contents = ag.sent
                 /\ Len(after.contents) = Len(ag.sent) + 1
                 /\ LastContent(after).role = "model"
                 /\ LastContent(after).parts \in SyncResponses
           /\ (pc[Sync] = "save" /\ pc'[Sync] = "turn") =>
                 /\ Len(after.contents) = Len(ag.sent) + 2
                 /\ LastContent(after) =
                       [role |-> "user", parts |-> ag.function_responses]]_vars

\* The request of the second turn has been issued with the conversation
\* of the first one, its response and its reply.
ConversationWitness ==
    LET ag == agent[Sync] IN
    /\ pc[Sync] = "request"
    /\ ag.requests = 2
    /\ Len(ag.sent) = 3
    /\ ag.sent = ag.contents
    /\ ag.sent[1] = InitialContents[1]
    /\ ag.sent[3].role = "user"

--------------------------------------------------------------------------
(* Teardown *)

\* cleanup_browser returns to its caller whatever its calls do.
NeverRaises(ag) == \A o \in CloseOutcomes(ag) : ~ cleanup_browser_raises(ag, o)

\* C28: browser teardown can be repeated: on a browser that was never
\* started, and a second time after it ran (by cancel_task and by the
\* job's thread, in whatever order the two come to it), it returns to its
\* caller without raising, and it changes no job record.
TeardownRepeatable ==
    /\ [](\A a \in Owners :
             /\ NeverRaises(agent[a])
             /\ NeverRaises(cleanup_browser(agent[a]))
             /\ cleanup_browser(cleanup_browser(agent[a])) = cleanup_browser(agent[a])
             /\ agent[a].browser = "none" => cleanup_browser(agent[a]) = agent[a])
    /\ [][\A id \in TaskIds :
             /\ cancel_task_return(id) =>
                   /\ hist'.cancelled[id] = hist.cancelled[id] + 1
                   /\ obj' = obj /\ tasks' = tasks
                   /\ agent[id].browser \in {"none", "closed"} => agent' = agent
             /\ _execute_task_finally(id) =>
                   /\ pc'[id] = "done"
                   /\ obj' = obj /\ tasks' = tasks
                   /\ agent[id].browser \in {"none", "closed"} => agent' = agent]_vars

\* cancel_task has torn the browser of a job down, and the job's thread
\* has reached its own teardown.
TeardownRepeatedWitness ==
    \E id \in tasks :
        /\ pc[id] = "finally"
        /\ obj[id].agent
        /\ agent[id].browser = "closed"
        /\ hist.cancelled[id] = 1
        /\ ENABLED _execute_task_finally(id)

--------------------------------------------------------------------------
(* Listing *)

\* C29: list_web_tasks returns count equal to the number of records in
\* the table and active_count equal to the number of those records whose
\* status is running.
ListCounts ==
    /\ list_web_tasks.count = Cardinality(tasks)
    /\ list_web_tasks.active_count =
          Cardinality({id \in tasks : obj[id].status = RUNNING})

--------------------------------------------------------------------------
(* Progress of a terminal record *)

\* The step makes the record of id terminal, with the given status.
BecomesTerminal(id, status) ==
    /\ id \in tasks
    /\ obj[id].status \notin Terminal
    /\ obj'[id].status = status

\* The record holds every event the loop of the job has appended.
ProgressComplete(id) ==
    IsPrefix(agent'[id].progress_updates, obj'[id].progress_updates)

\* C30: when a job record becomes terminal (completed, failed or
\* cancelled), the progress sequence stored in it holds every progress
\* event its loop has appended so far, whether or not the status was
\* queried while the job was running.
TerminalProgressComplete ==
    [][\A id \in TaskIds : \A status \in Terminal :
          BecomesTerminal(id, status) => ProgressComplete(id)]_vars

--------------------------------------------------------------------------
(* Queries *)

\* The fields of a record that make up the lifecycle of its job.
Lifecycle(task) ==
    IF task = NoTask THEN task
    ELSE [status |-> task.status, started_at |-> task.started_at,
          completed_at |-> task.completed_at, result |-> task.result,
          error |-> task.error]

\* The step is a call of get_task_status for id, in either format (such a
\* step moves no thread, reads no clock and counts as no start or cancel).
StatusQueried(id) ==
    /\ pc' = pc
    /\ clock' = clock
    /\ hist' = hist
    /\ \E compact \in BOOLEAN : get_task_status(id, compact)

\* The step is a call of list_tasks.
Listed == pc' = pc /\ clock' = clock /\ hist' = hist /\ list_tasks

\* C31: get_task_status and list_tasks leave the set of records and every
\* record's status, started_at, completed_at, result and error as they
\* are; get_task_status changes at most the progress sequence of the job
\* asked for, and only while that job is running; list_tasks changes no
\* field at all.
QueriesReadOnly ==
    [][/\ \A id \in TaskIds :
             StatusQueried(id) =>
                /\ tasks' = tasks
                /\ \A k \in TaskIds : Lifecycle(obj'[k]) = Lifecycle(obj[k])
                /\ \A k \in TaskIds \ {id} : obj'[k] = obj[k]
                /\ obj'[id] # obj[id] =>
                      /\ obj[id].status = RUNNING
                      /\ obj'[id] = [obj[id] EXCEPT !.progress_updates =
                                        agent[id].progress_updates]
                /\ UNCHANGED <<agent, pc>>
       /\ Listed => UNCHANGED <<tasks, obj, agent, pc>>]_vars

\* A status query has stored the progress of a running job, all of it.
QueriesWitness ==
    \E id \in tasks :
        /\ obj[id].status = RUNNING
        /\ Len(obj[id].progress_updates) >= 2
        /\ obj[id].progress_updates = agent[id].progress_updates
        /\ ENABLED list_tasks

--------------------------------------------------------------------------
(* Removed records *)

\* The ids whose record cleanup_old_tasks has removed from the table: the
\* record was made and its id is no key any more.
Removed == {id \in TaskIds : obj[id] # NoTask /\ id \notin tasks}

\* C32: a record cleanup_old_tasks has removed never comes back: whatever
\* happens next, a thread of the job finishing included, its id stays out
\* of the table, get_task_status returns None for it, and list_tasks
\* returns the records of the other ids only.
RemovedStaysRemoved ==
    [][\A id \in Removed :
          /\ id \notin tasks'
          /\ id \in Removed'
          /\ \A compact \in BOOLEAN : get_task_status_returns(id, compact)' = None
          /\ Len(list_tasks_returns') = Cardinality(tasks' \ {id})]_vars

\* The record of a job was removed while its thread was still in the loop;
\* the loop has returned and the thread is about to write its result.
RemovedWitness ==
    \E id \in Removed :
        /\ pc[id] = "returned"
        /\ obj[id].status = CANCELLED
        /\ ENABLED _execute_task_completed(id)
====
